---- MODULE Spec2Model ----
(***************************************************************************)
(* Model of src/app.py: CustomEchoBot.on_turn, the access-token manager    *)
(* (ensure_access_token / get_access_token), the outbound calls            *)
(* (classify_query, fetch_products, fetch_price_and_availability,          *)
(* ask_openai) and format_response.                                        *)
(*                                                                         *)
(* Text is a sequence of one-character strings, so that lower(), upper(),  *)
(* strip(), split(',') and the three re.search patterns are computed the   *)
(* way Python computes them.  A reply text is a record naming which of the *)
(* program's message templates was sent and the values embedded in it.     *)
(* One conversation (one user) is modelled; turns are handled one at a     *)
(* time, and every outbound HTTP call of a turn takes `lat` seconds.       *)
(***************************************************************************)
EXTENDS Integers, Sequences, FiniteSets, TLC

VARIABLES
    now,                \* asyncio loop time, in seconds
    access_token,       \* self.access_token: None or the bearer token
    token_expire_time,  \* self.token_expire_time: NoTime (None) or a time
    storage,            \* MEMORY_STORAGE: <<>> or <<the saved "UserPageState">>
    activity,           \* the activity of the turn just handled
    calls,              \* the outbound HTTP calls of that turn, in order
    replies,            \* the activities sent to the user in that turn
    outcome,            \* how that turn ended
    fmt_products,       \* format_response alone: its first argument
    fmt_page,           \* format_response alone: its second argument
    fmt_response        \* format_response alone: what it returned

botVars == <<now, access_token, token_expire_time, storage,
             activity, calls, replies, outcome>>
formatVars == <<fmt_products, fmt_page, fmt_response>>
vars == <<botVars, formatVars>>

(***************************************************************************)
(* Bounds of the model.                                                    *)
(***************************************************************************)
MaxKeywords == 2    \* keywords of a search message
MaxDigits == 1      \* digits of a page message
MaxTicks == 1       \* turns start no later than MaxTicks * TimeStep seconds
MaxLatency == 1     \* an outbound call takes 0..MaxLatency time steps
MaxExpiry == 2      \* expires_in is 1..MaxExpiry time steps
MaxMembers == 2     \* members_added of a conversationUpdate
MaxBatches == 2     \* format_response: keyword batches
MaxItems == 11      \* format_response: catalog entries of one batch
MaxPage == 2        \* format_response: current_page

(***************************************************************************)
(* Program constants.                                                      *)
(***************************************************************************)
SafetyMargin == 300     \* expires_in - 300
PageSize == 10          \* params['pageSize']
ItemsPerPage == 10      \* items_per_page
StatusOK == 200         \* response.status == 200
NoTime == -1            \* token_expire_time = None

TimeStep == SafetyMargin
MaxTime == MaxTicks * TimeStep
None == "None"
Token == "token"
BotId == "bot"

(***************************************************************************)
(* Characters and the str methods the program uses.                        *)
(***************************************************************************)
LowerLetters == <<"a","b","c","d","e","f","g","h","i","j","k","l","m",
                  "n","o","p","q","r","s","t","u","v","w","x","y","z">>
UpperLetters == <<"A","B","C","D","E","F","G","H","I","J","K","L","M",
                  "N","O","P","Q","R","S","T","U","V","W","X","Y","Z">>
Digits == <<"0","1","2","3","4","5","6","7","8","9">>

Range(s) == {s[i] : i \in 1..Len(s)}
IndexOf(c, s) == CHOOSE i \in 1..Len(s) : s[i] = c

LowerSet == Range(LowerLetters)
UpperSet == Range(UpperLetters)
DigitSet == Range(Digits)
WordSet == LowerSet \cup UpperSet \cup DigitSet \cup {"_"}
SpaceSet == {" ", "\t", "\n", "\r"}
ToLower == [c \in UpperSet |-> LowerLetters[IndexOf(c, UpperLetters)]]
ToUpper == [c \in LowerSet |-> UpperLetters[IndexOf(c, LowerLetters)]]
DigitValue == [c \in DigitSet |-> IndexOf(c, Digits) - 1]

IsWordChar(c) == c \in WordSet
IsSpace(c) == c \in SpaceSet

LowerChar(c) == IF c \in UpperSet THEN ToLower[c] ELSE c
UpperChar(c) == IF c \in LowerSet THEN ToUpper[c] ELSE c

\* str.lower()
Lower(s) == [i \in 1..Len(s) |-> LowerChar(s[i])]
\* str.upper()
Upper(s) == [i \in 1..Len(s) |-> UpperChar(s[i])]

\* str.strip(): leading and trailing whitespace removed
RECURSIVE LStrip(_)
LStrip(s) == IF s # <<>> /\ IsSpace(Head(s)) THEN LStrip(Tail(s)) ELSE s
RECURSIVE RStrip(_)
RStrip(s) == IF s # <<>> /\ IsSpace(s[Len(s)])
             THEN RStrip(SubSeq(s, 1, Len(s) - 1)) ELSE s
Strip(s) == RStrip(LStrip(s))

\* str.split(','): always at least one element
RECURSIVE SplitFrom(_, _)
SplitFrom(s, cur) ==
    IF s = <<>> THEN <<cur>>
    ELSE IF Head(s) = "," THEN <<cur>> \o SplitFrom(Tail(s), <<>>)
    ELSE SplitFrom(Tail(s), Append(cur, Head(s)))
SplitComma(s) == SplitFrom(s, <<>>)

\* int() of a string of digits
RECURSIVE ParseInt(_)
ParseInt(s) == IF s = <<>> THEN 0
               ELSE 10 * ParseInt(SubSeq(s, 1, Len(s) - 1))
                    + DigitValue[s[Len(s)]]

(***************************************************************************)
(* re.search(literal + "(class+)", s): the leftmost place where the        *)
(* literal is followed by a character of the class; the group is the       *)
(* longest run of the class from there (the quantifier is greedy and the   *)
(* pattern ends with it).                                                  *)
(***************************************************************************)
SearchLit == <<"s","e","a","r","c","h"," ","p","r","o","d","u","c","t"," ",
               "d","e","t","a","i","l","s"," ","f","o","r"," ">>
PageLit == <<"p","a","g","e"," ">>
PriceLit == <<"p","r","i","c","e"," ","a","n","d"," ","a","v","a","i","l",
              "a","b","i","l","i","t","y"," ","f","o","r"," ">>

\* The characters "." matches: all but the line break.
CharSet == WordSet \cup SpaceSet \cup {",", "-", ".", "?", "!"}
DotSet == CharSet \ {"\n"}

\* The pattern matches at position i (the first conjunct on s[i] only spares
\* the comparison of the literal where its first character differs).
MatchesAt(lit, class, s, i) ==
    /\ i + Len(lit) <= Len(s)
    /\ s[i] = lit[1]
    /\ SubSeq(s, i, i + Len(lit) - 1) = lit
    /\ s[i + Len(lit)] \in class

HasMatch(lit, class, s) ==
    \E i \in 1..Len(s) : MatchesAt(lit, class, s, i)

RECURSIVE RunFrom(_, _, _)
RunFrom(class, s, i) ==
    IF i <= Len(s) /\ s[i] \in class
    THEN <<s[i]>> \o RunFrom(class, s, i + 1) ELSE <<>>

Group1(lit, class, s) ==
    LET i == CHOOSE k \in 1..Len(s) :
                 /\ MatchesAt(lit, class, s, k)
                 /\ \A j \in 1..(k - 1) : ~MatchesAt(lit, class, s, j)
    IN RunFrom(class, s, i + Len(lit))

keyword_search(user_message) == HasMatch(SearchLit, DotSet, user_message)
page_search(user_message) == HasMatch(PageLit, DigitSet, user_message)
product_id_search(user_message) == HasMatch(PriceLit, WordSet, user_message)

(***************************************************************************)
(* Outbound HTTP calls.  A call record keeps what the claims are about:    *)
(* the endpoint, its main argument, the page and category parameters, the  *)
(* bearer token with the expire time the program holds for it, the time    *)
(* the call is issued, the time its response arrives and its status.       *)
(***************************************************************************)
Call(kind, arg, page, category, bearer, expiry, at, done, status) ==
    [kind |-> kind, arg |-> arg, page |-> page, category |-> category,
     bearer |-> bearer, expiry |-> expiry, at |-> at, done |-> done,
     status |-> status]

\* get_access_token: the (access_token, expire_time) pair it returns, the
\* time when it returns and the call it made.
get_access_token(t, lat, resp) ==
    LET done == t + lat
        call == Call("token", <<>>, 0, "", None, NoTime, t, done, resp.status)
    IN IF resp.status = StatusOK
       THEN [access_token |-> Token,
             token_expire_time |-> done + resp.expires_in - SafetyMargin,
             now |-> done, calls |-> <<call>>]
       ELSE [access_token |-> None, token_expire_time |-> NoTime,
             now |-> done, calls |-> <<call>>]

\* The condition of ensure_access_token.
TokenStale(tok, exp, t) == tok = None \/ t > exp

\* ensure_access_token: the token fields after it, whether it raised.
ensure_access_token(tok, exp, t, lat, resp) ==
    IF TokenStale(tok, exp, t)
    THEN LET got == get_access_token(t, lat, resp)
         IN [access_token |-> got.access_token,
             token_expire_time |-> got.token_expire_time,
             now |-> got.now, calls |-> got.calls,
             raised |-> got.access_token = None]
    ELSE [access_token |-> tok, token_expire_time |-> exp,
          now |-> t, calls |-> <<>>, raised |-> FALSE]

\* classify_query: the classification (the stripped content of the
\* completion, an opaque label here) or "Other".
KnownCategories == {"Computer Systems", "Accessories", "Network Devices"}

classify_query(query, t, lat, resp) ==
    [category |-> IF resp.status = StatusOK THEN resp.category ELSE "Other",
     calls |-> <<Call("classify", query, 0, "", None, NoTime, t, t + lat,
                      resp.status)>>]

\* fetch_products: one catalog call per keyword, one after another; the
\* results are the bodies of the calls that returned 200.
RECURSIVE fetch_products(_, _, _, _, _, _, _, _)
fetch_products(tok, exp, keywords, category, page_number, t, lat, resps) ==
    IF keywords = <<>> THEN [results |-> <<>>, calls |-> <<>>]
    ELSE LET call == Call("catalog", Strip(Head(keywords)), page_number,
                          IF category \in KnownCategories THEN category ELSE "",
                          tok, exp, t, t + lat, Head(resps).status)
             rest == fetch_products(tok, exp, Tail(keywords), category,
                                    page_number, t + lat, lat, Tail(resps))
         IN [results |-> (IF Head(resps).status = StatusOK
                          THEN <<Head(resps).body>> ELSE <<>>) \o rest.results,
             calls |-> <<call>> \o rest.calls]

\* len(product_data.get('catalog', [])) summed over the batches.  A batch
\* is [hasCatalog, items]: whether the body has a 'catalog' key and how
\* many entries it lists.
RECURSIVE ItemsInCurrentPage(_)
ItemsInCurrentPage(products) ==
    IF products = <<>> THEN 0
    ELSE (IF Head(products).hasCatalog THEN Head(products).items ELSE 0)
         + ItemsInCurrentPage(Tail(products))

\* A full page or more counts as "more results".
MoreResults_AtLeast(items_in_current_page) == items_in_current_page >= ItemsPerPage

\* The comparison that chooses the closing lines of format_response.
MoreResults(items_in_current_page) == items_in_current_page = ItemsPerPage

\* format_response: the product blocks and the closing lines.
format_response(products, current_page) ==
    LET n == ItemsInCurrentPage(products)
    IN IF MoreResults(n)
       THEN [kind |-> "products", blocks |-> n, tail |-> "more",
             on |-> current_page, next |-> current_page + 1]
       ELSE [kind |-> "products", blocks |-> n, tail |-> "last",
             on |-> current_page]

\* The part number is sent as matched, not upper-cased.
PartNumber_AsMatched(ingram_part_number) == ingram_part_number

\* The part number sent in the lookup body.
PartNumber(ingram_part_number) == Upper(ingram_part_number)

\* fetch_price_and_availability: the reply text and the call.
fetch_price_and_availability(tok, exp, ingram_part_number, t, lat, resp) ==
    [reply |-> IF resp.status = StatusOK
               THEN [kind |-> "details", blocks |-> resp.products]
               ELSE [kind |-> "failed_details", status |-> resp.status],
     calls |-> <<Call("price", PartNumber(ingram_part_number), 0, "",
                      tok, exp, t, t + lat, resp.status)>>]

\* ask_openai: the reply text and the call.
ask_openai(prompt, t, lat, resp) ==
    [reply |-> IF resp.status = StatusOK
               THEN [kind |-> "completion", text |-> Strip(resp.content)]
               ELSE [kind |-> "openai_error"],
     calls |-> <<Call("completion", prompt, 0, "", None, NoTime, t, t + lat,
                      resp.status)>>]

\* on_error: what the adapter sends when on_turn raises.
on_error == <<[kind |-> "bot_error"], [kind |-> "fix_source"]>>

Welcome == [kind |-> "welcome"]
NotFormatted == [kind |-> "none"]

\* user_state_accessor.get(turn_context, {"current_page": 1, "keywords": []})
DefaultPageState == [current_page |-> 1, keywords |-> <<>>]
PageStateOf(stor) == IF stor = <<>> THEN DefaultPageState ELSE stor[1]

(***************************************************************************)
(* Inputs: activities and the responses of the outside services.           *)
(* A message is a command phrase followed by a keyword list joined by      *)
(* commas, a string of digits or an identifier, or it is some other text.  *)
(***************************************************************************)
\* ",".join(list)
RECURSIVE JoinComma(_)
JoinComma(list) ==
    IF Len(list) = 1 THEN list[1]
    ELSE list[1] \o <<",">> \o JoinComma(Tail(list))

KeywordChoices == {<<"b">>, <<" ", "A">>}
KeywordLists == UNION {[1..n -> KeywordChoices] : n \in 1..MaxKeywords}
DigitStrings == UNION {[1..n -> {"0", "2"}] : n \in 1..MaxDigits}
Identifiers == {<<"A", "1">>, <<"a", "-", "1">>, <<"-", "a">>}
\* "Page 2", and a lookup of the identifier "page": the page pattern matches
MixedTexts == {<<"P", "a", "g", "e", " ", "2">>, PriceLit \o PageLit \o <<"2">>}
PlainTexts == {<<"H", "i">>, SearchLit, PageLit \o <<"x">>, PriceLit}

Texts ==
    {SearchLit \o JoinComma(K) : K \in KeywordLists}
        \cup {PageLit \o P : P \in DigitStrings}
        \cup {PriceLit \o I : I \in Identifiers}
        \cup MixedTexts
        \cup PlainTexts

MemberLists == UNION {[1..n -> {BotId, "user"}] : n \in 0..MaxMembers}

Message(text) == [type |-> "message", text |-> text, members_added |-> <<>>]
ConversationUpdate(members) ==
    [type |-> "conversationUpdate", text |-> <<>>, members_added |-> members]
OtherActivity == [type |-> "typing", text |-> <<>>, members_added |-> <<>>]
NoActivity == [type |-> "none", text |-> <<>>, members_added |-> <<>>]

Latencies == {k * TimeStep : k \in 0..MaxLatency}
ExpiresIn == {k * TimeStep : k \in 1..MaxExpiry}

NoResponse == [status |-> 0]
TokenResponses == {[status |-> StatusOK, expires_in |-> e] : e \in ExpiresIn}
                      \cup {[status |-> 401]}
ClassifyResponses == {[status |-> StatusOK, category |-> "Network Devices"],
                      [status |-> 500]}
CatalogResponses ==
    {[status |-> StatusOK, body |-> [hasCatalog |-> TRUE, items |-> PageSize]],
     [status |-> 500]}
PriceResponses == {[status |-> StatusOK, products |-> 1], [status |-> 404]}
CompletionResponses ==
    {[status |-> StatusOK, content |-> <<" ", "o", "k", "\n">>],
     [status |-> 500]}

(***************************************************************************)
(* Lines 98-104, 112 and 120: the lowercased text, the branch the three    *)
(* searches select (first match wins) and the value each branch takes from *)
(* its match.                                                              *)
(***************************************************************************)
Branch(user_message) ==
    IF keyword_search(user_message) THEN "search"
    ELSE IF page_search(user_message) THEN "page"
    ELSE IF product_id_search(user_message) THEN "price"
    ELSE "fallback"

\* keywords = keyword_search.group(1).split(',')
Keywords(user_message) == SplitComma(Group1(SearchLit, DotSet, user_message))
\* page_number = int(page_search.group(1))
PageNumber(user_message) == ParseInt(Group1(PageLit, DigitSet, user_message))
\* product_id = product_id_search.group(1)
ProductId(user_message) == Group1(PriceLit, WordSet, user_message)

ParseMessage(text) ==
    LET um == Lower(text)
        b == Branch(um)
    IN [user_message |-> um, branch |-> b,
        keywords |-> IF b = "search" THEN Keywords(um) ELSE <<>>,
        page_number |-> IF b = "page" THEN PageNumber(um) ELSE 0,
        product_id |-> IF b = "price" THEN ProductId(um) ELSE <<>>]

\* ParseMessage of every text of the model, computed once.
Parsed == [text \in Texts |-> ParseMessage(text)]

(***************************************************************************)
(* on_turn.  The result names the token fields, the time and the log of    *)
(* the turn; `storages` is the set of values MEMORY_STORAGE may hold after *)
(* the turn.  It has one element, except when the page branch raises after *)
(* line 113 has assigned current_page in the dictionary the accessor       *)
(* returned: save_changes is not reached, and whether the assignment is    *)
(* seen by later turns depends on whether the storage handed out its own   *)
(* dictionary or a copy.                                                   *)
(***************************************************************************)
Result(tok, exp, t, storages, cs, rs, out) ==
    [access_token |-> tok, token_expire_time |-> exp, now |-> t,
     storages |-> storages, calls |-> cs, replies |-> rs, outcome |-> out]

\* A keyword search that does not reset the page.
SearchPageState_KeepsPage(user_page_state, keywords) ==
    [user_page_state EXCEPT !.keywords = keywords]

\* The page state a keyword search leaves (lines 106-107).
SearchPageState(user_page_state, keywords) ==
    [user_page_state EXCEPT !.keywords = keywords, !.current_page = 1]

\* A page command that stores a zero-based page index.
PagePageState_ZeroBased(user_page_state, page_number) ==
    [user_page_state EXCEPT !.current_page = page_number - 1]

\* The page state a page command leaves (line 113).
PagePageState(user_page_state, page_number) ==
    [user_page_state EXCEPT !.current_page = page_number]

\* Lines 103-110.
SearchBranch(msg, st, tok, exp, t, env) ==
    LET keywords == msg.keywords
        cl == classify_query(keywords[1], t, env.lat, env.classify)
        st2 == SearchPageState(st, keywords)
        fp == fetch_products(tok, exp, keywords, cl.category,
                             st2.current_page, t + env.lat, env.lat, env.catalog)
        response == format_response(fp.results, st2.current_page)
    IN Result(tok, exp, t + env.lat + Len(keywords) * env.lat, {<<st2>>},
              cl.calls \o fp.calls, <<response>>, "ok")

\* Lines 111-118.
PageBranch(msg, stor, st, tok, exp, t, env) ==
    LET page_number == msg.page_number
        st2 == PagePageState(st, page_number)
        keywords == st2.keywords
    IN IF keywords = <<>>
       THEN \* keywords[0] raises IndexError
            Result(tok, exp, t,
                   {stor} \cup (IF stor = <<>> THEN {} ELSE {<<st2>>}),
                   <<>>, on_error, "index_error")
       ELSE LET cl == classify_query(keywords[1], t, env.lat, env.classify)
                fp == fetch_products(tok, exp, keywords, cl.category,
                                     page_number, t + env.lat, env.lat,
                                     env.catalog)
                response == format_response(fp.results, page_number)
            IN Result(tok, exp, t + env.lat + Len(keywords) * env.lat,
                      {<<st2>>}, cl.calls \o fp.calls, <<response>>, "ok")

\* Lines 119-122.
PriceBranch(msg, st, tok, exp, t, env) ==
    LET pa == fetch_price_and_availability(tok, exp, msg.product_id, t,
                                            env.lat, env.price)
    IN Result(tok, exp, t + env.lat, {<<st>>}, pa.calls, <<pa.reply>>, "ok")

\* The prompt of the fallback branch (line 124).
Prompt(text, user_message) == user_message

\* Lines 123-125.
FallbackBranch(text, msg, st, tok, exp, t, env) ==
    LET ao == ask_openai(Prompt(text, msg.user_message), t, env.lat,
                         env.completion)
    IN Result(tok, exp, t + env.lat, {<<st>>}, ao.calls, <<ao.reply>>, "ok")

\* Lines 97-128.
MessageBranch(text, stor, tok, exp, t, env) ==
    LET msg == Parsed[text]
        st == PageStateOf(stor)
    IN CASE msg.branch = "search" -> SearchBranch(msg, st, tok, exp, t, env)
         [] msg.branch = "page" -> PageBranch(msg, stor, st, tok, exp, t, env)
         [] msg.branch = "price" -> PriceBranch(msg, st, tok, exp, t, env)
         [] OTHER -> FallbackBranch(text, msg, st, tok, exp, t, env)

\* Lines 129-133: one welcome per added member that is not the bot.
RECURSIVE Welcomes(_)
Welcomes(members_added) ==
    IF members_added = <<>> THEN <<>>
    ELSE (IF Head(members_added) # BotId THEN <<Welcome>> ELSE <<>>)
         \o Welcomes(Tail(members_added))

\* ensure_access_token that does not raise when no token was obtained.
Proceeds_Always(ens) == TRUE

\* Whether on_turn goes on after ensure_access_token (line 94).
Proceeds(ens) == ~ens.raised

\* Lines 93-133.
on_turn(act, stor, tok, exp, t, env) ==
    LET ens == ensure_access_token(tok, exp, t, env.lat, env.token)
        rest ==
            CASE act.type = "message" ->
                     MessageBranch(act.text, stor, ens.access_token,
                                   ens.token_expire_time, ens.now, env)
              [] act.type = "conversationUpdate" ->
                     Result(ens.access_token, ens.token_expire_time, ens.now,
                            {stor}, <<>>, Welcomes(act.members_added), "ok")
              [] OTHER ->
                     Result(ens.access_token, ens.token_expire_time, ens.now,
                            {stor}, <<>>, <<>>, "ok")
    IN IF Proceeds(ens)
       THEN [rest EXCEPT !.calls = ens.calls \o rest.calls]
       ELSE Result(ens.access_token, ens.token_expire_time, ens.now,
                   {stor}, ens.calls, on_error, "auth_error")

\* The number of catalog calls a turn makes if it reaches them.
CatalogCalls(act, stor) ==
    IF act.type # "message" THEN 0
    ELSE CASE Parsed[act.text].branch = "search" -> Len(Parsed[act.text].keywords)
           [] Parsed[act.text].branch = "page" -> Len(PageStateOf(stor).keywords)
           [] OTHER -> 0

\* The responses a turn can meet: only those of the calls it makes vary.
\* When the token request is refused the turn ends there (line 72), so the
\* other services do not answer: every later response is NoResponse.
Env(l, tk, cl, ca, pr, co) ==
    [lat |-> l, token |-> tk, classify |-> cl, catalog |-> ca,
     price |-> pr, completion |-> co]

Envs(act, stor, tok, exp, t) ==
    LET b == IF act.type = "message" THEN Parsed[act.text].branch ELSE "none"
        n == CatalogCalls(act, stor)
        stale == TokenStale(tok, exp, t)
        refused == {tk \in TokenResponses : stale /\ tk.status # StatusOK}
        granted == IF stale THEN TokenResponses \ refused ELSE {NoResponse}
    IN {Env(l, tk, cl, ca, pr, co) :
          l \in Latencies,
          tk \in granted,
          cl \in IF n > 0 THEN ClassifyResponses ELSE {NoResponse},
          ca \in [1..n -> CatalogResponses],
          pr \in IF b = "price" THEN PriceResponses ELSE {NoResponse},
          co \in IF b = "fallback" THEN CompletionResponses ELSE {NoResponse}}
       \cup {Env(l, tk, NoResponse, [i \in 1..n |-> NoResponse],
                 NoResponse, NoResponse) :
                 l \in Latencies, tk \in refused}

(***************************************************************************)
(* The state machine.                                                      *)
(***************************************************************************)
\* __init__: the token request made at construction may fail, and the bot
\* is constructed all the same; no page state is stored yet.
Init ==
    /\ now = 0
    /\ \E resp \in TokenResponses :
           LET got == get_access_token(0, 0, resp)
           IN /\ access_token = got.access_token
              /\ token_expire_time = got.token_expire_time
    /\ storage = <<>>
    /\ activity = NoActivity
    /\ calls = <<>>
    /\ replies = <<>>
    /\ outcome = "idle"
    /\ fmt_products = <<>>
    /\ fmt_page = 1
    /\ fmt_response = NotFormatted

\* One turn: ADAPTER.process_activity(auth_header, activity, BOT.on_turn).
\* Turns are handled one at a time.
Turn(act) ==
    /\ outcome = "idle"
    /\ now <= MaxTime
    /\ \E env \in Envs(act, storage, access_token, token_expire_time, now) :
        \E r \in {on_turn(act, storage, access_token, token_expire_time, now, env)} :
           /\ now' = r.now
           /\ access_token' = r.access_token
           /\ token_expire_time' = r.token_expire_time
           /\ storage' \in r.storages
           /\ activity' = act
           /\ calls' = r.calls
           /\ replies' = r.replies
           /\ outcome' = r.outcome
    /\ UNCHANGED formatVars

MessageTurn == \E text \in Texts : Turn(Message(text))

ConversationUpdateTurn == \E members \in MemberLists : Turn(ConversationUpdate(members))

OtherActivityTurn == Turn(OtherActivity)

\* messages() returns the adapter's response: the turn is over.
TurnEnds ==
    /\ outcome # "idle"
    /\ activity' = NoActivity
    /\ calls' = <<>>
    /\ replies' = <<>>
    /\ outcome' = "idle"
    /\ UNCHANGED <<now, access_token, token_expire_time, storage>>
    /\ UNCHANGED formatVars

\* Time passes between two turns.
Tick ==
    /\ outcome = "idle"
    /\ now + TimeStep <= MaxTime
    /\ now' = now + TimeStep
    /\ UNCHANGED <<access_token, token_expire_time, storage,
                   activity, calls, replies, outcome>>
    /\ UNCHANGED formatVars

Next == MessageTurn \/ ConversationUpdateTurn \/ OtherActivityTurn
            \/ TurnEnds \/ Tick

Spec == Init /\ [][Next]_vars

(***************************************************************************)
(* format_response alone, applied to every list of at most MaxBatches      *)
(* bodies of at most MaxItems catalog entries (a body may lack the         *)
(* 'catalog' key) and every page up to MaxPage.                            *)
(***************************************************************************)
Batches == {[hasCatalog |-> FALSE, items |-> 0]}
               \cup {[hasCatalog |-> TRUE, items |-> n] : n \in 0..MaxItems}
ProductLists == UNION {[1..n -> Batches] : n \in 0..MaxBatches}

InitFormat ==
    /\ now = 0
    /\ access_token = None
    /\ token_expire_time = NoTime
    /\ storage = <<>>
    /\ activity = NoActivity
    /\ calls = <<>>
    /\ replies = <<>>
    /\ outcome = "idle"
    /\ fmt_products \in ProductLists
    /\ fmt_page \in 0..MaxPage
    /\ fmt_response = NotFormatted

Format ==
    /\ fmt_response = NotFormatted
    /\ fmt_response' = format_response(fmt_products, fmt_page)
    /\ UNCHANGED <<botVars, fmt_products, fmt_page>>

NextFormat == Format

SpecFormat == InitFormat /\ [][NextFormat]_vars

(***************************************************************************)
(* The claims.  They read the log of the turn just handled.                *)
(***************************************************************************)
TurnDone == outcome # "idle"
IsMessage == activity.type = "message"

\* The text starts with the phrase; what follows the phrase.
StartsWith(text, lit) ==
    Len(text) >= Len(lit) /\ SubSeq(text, 1, Len(lit)) = lit
After(text, lit) == SubSeq(text, Len(lit) + 1, Len(text))

CallsOfKind(kind) == SelectSeq(calls, LAMBDA c : c.kind = kind)
MapStrip(list) == [i \in 1..Len(list) |-> Strip(list[i])]
SavedPageState(page, keywords) == <<[current_page |-> page, keywords |-> keywords]>>

IsSearchTurn ==
    /\ outcome = "ok" /\ IsMessage
    /\ StartsWith(activity.text, SearchLit)
    /\ After(activity.text, SearchLit) # <<>>

IsPageTurn ==
    /\ TurnDone /\ IsMessage
    /\ StartsWith(activity.text, PageLit)
    /\ After(activity.text, PageLit) # <<>>
    /\ outcome # "auth_error"

\* C2: a turn with text "page {P}" ends with current_page = int(P) saved,
\* also when no keyword search was made before: the turn completes with a
\* normal zero-item reply.
C2_Original ==
    IsPageTurn =>
        /\ outcome = "ok"
        /\ storage # <<>>
        /\ storage[1].current_page = ParseInt(After(activity.text, PageLit))
        /\ replies # <<>> /\ replies[1].kind = "products"

IsProviderCall(c) == c.kind \in {"catalog", "price"}

\* C3: every catalog or price-and-availability call carries a token that is
\* present and has not expired when the call is issued.  The token expires
\* SafetyMargin seconds after the expire time the program holds for it.
C3_Original ==
    \A i \in 1..Len(calls) :
        IsProviderCall(calls[i]) =>
            /\ calls[i].bearer # None
            /\ calls[i].at <= calls[i].expiry + SafetyMargin

\* C4: when the token is absent or expired at the start of a turn, exactly
\* one token request is made in the turn and its response arrives before any
\* other call is issued; if the response is not a success the turn aborts
\* with the authentication error and no other call is made.
C4_OneRefreshBeforeCalls ==
    [][(/\ outcome = "idle" /\ outcome' # "idle"
        /\ (access_token = None \/ now > token_expire_time))
       => (/\ calls' # <<>>
           /\ calls'[1].kind = "token"
           /\ \A i \in 2..Len(calls') :
                  calls'[i].kind # "token" /\ calls'[i].at >= calls'[1].done
           /\ calls'[1].status # StatusOK
                  => /\ outcome' = "auth_error"
                     /\ Len(calls') = 1
                     /\ replies' = on_error)]_vars

C4_Witness ==
    /\ outcome = "auth_error"
    /\ IsMessage
    /\ Len(calls) = 1
    /\ calls[1].kind = "token" /\ calls[1].status # StatusOK

IsFallbackTurn ==
    /\ outcome = "ok" /\ IsMessage
    /\ Parsed[activity.text].branch = "fallback"

\* C5: for a text that matches none of the three patterns the prompt sent to
\* the completion endpoint is the text as received, no catalog or price call
\* is made, and the reply is the completion's text stripped.
C5_Original ==
    IsFallbackTurn =>
        LET completion == CallsOfKind("completion")
        IN /\ Len(completion) = 1
           /\ completion[1].arg = activity.text
           /\ \A i \in 1..Len(calls) : ~IsProviderCall(calls[i])
           /\ completion[1].status = StatusOK
                  => replies = <<[kind |-> "completion", text |-> <<"o", "k">>]>>

IsPriceText ==
    /\ TurnDone /\ IsMessage
    /\ outcome # "auth_error"
    /\ StartsWith(activity.text, PriceLit)
    /\ After(activity.text, PriceLit) # <<>>
    /\ ~keyword_search(Lower(activity.text))
    /\ ~page_search(Lower(activity.text))

\* C6 as stated: text "price and availability for {I}" issues exactly one
\* lookup call, for the whole of I upper-cased, and no catalog call (read
\* for the identifiers that start with a letter, a digit or "_").
C6_Original ==
    (IsPriceText /\ IsWordChar(After(activity.text, PriceLit)[1])) =>
        /\ Len(CallsOfKind("price")) = 1
        /\ CallsOfKind("price")[1].arg = Upper(After(activity.text, PriceLit))
        /\ CallsOfKind("catalog") = <<>>

\* C6 amended: text "price and availability for {I}" issues no catalog call;
\* when I starts with a word character it issues exactly one lookup call,
\* for the longest run of word characters at the start of I, upper-cased
\* (the whole of I when I has word characters only); otherwise it issues no
\* lookup call.
C6_LookupOfLeadingWord ==
    IsPriceText =>
        LET I == After(activity.text, PriceLit)
            price == CallsOfKind("price")
        IN /\ CallsOfKind("catalog") = <<>>
           /\ IF IsWordChar(I[1])
              THEN /\ Len(price) = 1
                   /\ price[1].arg = Upper(RunFrom(WordSet, I, 1))
              ELSE price = <<>>

C6_Witness ==
    /\ IsPriceText
    /\ activity.text = PriceLit \o <<"a", "-", "1">>
    /\ Len(calls) = 1
    /\ calls[1].kind = "price" /\ calls[1].arg = <<"A">>

\* C7: when a catalog, price-and-availability or completion call of a
\* message turn returns a non-success status the turn is not aborted, the
\* reply describes the failure and the page state is saved.
C7_Original ==
    (/\ TurnDone /\ IsMessage
     /\ \E i \in 1..Len(calls) :
            /\ calls[i].kind \in {"catalog", "price", "completion"}
            /\ calls[i].status # StatusOK)
    => /\ outcome = "ok"
       /\ storage # <<>>
       /\ Len(replies) = 1
       /\ replies[1].kind \in {"failed_details", "openai_error"}

\* C8: format_response closes with the "more results" lines naming page
\* p + 1 exactly when the catalog entries of all batches together number
\* the page size, and with the "last page" line naming p otherwise.
RECURSIVE CatalogEntries(_)
CatalogEntries(bodies) ==
    IF bodies = <<>> THEN 0
    ELSE CatalogEntries(SubSeq(bodies, 1, Len(bodies) - 1))
         + (IF bodies[Len(bodies)].hasCatalog THEN bodies[Len(bodies)].items ELSE 0)

C8_MoreIffPageSize ==
    fmt_response # NotFormatted =>
        /\ fmt_response.kind = "products"
        /\ fmt_response.on = fmt_page
        /\ fmt_response.tail \in {"more", "last"}
        /\ fmt_response.tail = "more" <=> CatalogEntries(fmt_products) = PageSize
        /\ fmt_response.tail = "more" => fmt_response.next = fmt_page + 1

C8_Witness ==
    /\ fmt_response # NotFormatted
    /\ Len(fmt_products) = 2
    /\ fmt_products[1].items = 4 /\ fmt_products[2].items = 6
    /\ fmt_response.tail = "more"

\* C9: a members-added event sends one welcome per added member other than
\* the bot and issues no outbound call, also when the token is expired or
\* cannot be acquired.
C9_Original ==
    (/\ TurnDone /\ activity.type = "conversationUpdate"
     /\ \E i \in 1..Len(activity.members_added) : activity.members_added[i] # BotId)
    => /\ calls = <<>>
       /\ Len(replies) = Cardinality({i \in 1..Len(activity.members_added) :
                                          activity.members_added[i] # BotId})
       /\ \A i \in 1..Len(replies) : replies[i] = Welcome

\* C10 as stated: current_page of the page state is at least 1 (read for
\* the page states that hold the keywords of a search).
C10_Original ==
    PageStateOf(storage).keywords # <<>> => PageStateOf(storage).current_page >= 1

\* C10 amended: current_page of the page state is at least 0; before a
\* page state is saved it is 1 and keywords is empty.
C10_PageNotNegative ==
    /\ PageStateOf(storage).current_page >= 0
    /\ storage = <<>> => PageStateOf(storage) = [current_page |-> 1, keywords |-> <<>>]

C10_Witness ==
    /\ outcome = "ok"
    /\ storage # <<>>
    /\ storage[1].current_page = 0
    /\ storage[1].keywords # <<>>

====
